---- MODULE Spec2Model ----
(***************************************************************************)
(* A model of route-poi-finder (src/main.go): the route segmenter, the     *)
(* query renderer, the disk cache in front of the Overpass API, the way    *)
(* centre aggregation, the POI construction and the output ordering of     *)
(* mainErr.                                                                *)
(*                                                                         *)
(* Conventions.                                                            *)
(*  - A Go string is a sequence of one-character strings; strings are      *)
(*    compared bytewise through Ord, as Go's < on strings does.            *)
(*  - A coordinate in a file or a response is a decimal text of seven      *)
(*    decimals, kept as an integer count of 1e-7 degrees; the float64 read *)
(*    from it and the float64 arithmetic on it are modelled bit for bit.   *)
(*  - A response body is a sequence of tokens: "{" opens the JSON object,  *)
(*    an element record stands for one entry of "elements", "}" closes.    *)
(*  - Opening a file succeeds unless the file is absent, and creating,     *)
(*    reading and closing one succeed; writing the response to the cache   *)
(*    file and rewinding that file may fail. The network may refuse the    *)
(*    request, answer any status, break while the body is being read, or   *)
(*    report an error after the whole body was read.                       *)
(*  - The upstream service answers a query from its map data, which does   *)
(*    not change during a run and may change between runs.                 *)
(***************************************************************************)
EXTENDS Integers, Sequences, FiniteSets, TLC

\* ------------------------------------------------------------------ bounds
\* Longest route (in points) the segmenter alone is exercised on.
MaxSegLen == 5
\* Largest chunk count the arithmetic of the segmenter is evaluated for. The
\* program itself runs with the constant `split`, which is 1.
MaxSplit == 2
\* Longest route (in points) of a whole run.
MaxRouteLen == 2

\* Longest decoded response the aggregator alone is exercised on.
MaxBatch == 3
\* Most tags of a tag map the classifier alone is exercised on.
MaxTags == 3

VARIABLES
    \* mainErr
    pts,        \* gpx.Tracks[0].Segments[0].Points
    splits,     \* the chunks of the route
    pc,         \* position of mainErr
    si,         \* index of the chunk being processed
    qi,         \* index of the rule being processed
    pois,       \* the POI list of the chunk
    outputs,    \* the POI lists written, one file each
    res,        \* "running", or how the run ended: "ok", "error", "panic"
    matches,    \* history: the (rule, element) pairs the chunk's queries matched
    found,      \* history: the chunk's POIs in the order they were built
    \* queryResponseElements
    cache,      \* the files of dataDir: key -> contents
    fpc,        \* position of queryResponseElements
    ftext,      \* renderedQuery
    resp,       \* the response of the POST
    rc,         \* what the decoder reads
    fres,       \* the result of the call
    freqs,      \* history: requests sent by this call
    fprior,     \* history: the body an earlier call received for this text
    cache0,     \* history: the files when the call began
    paid,       \* history: key -> body received and stored whole
    \* the upstream service
    world,      \* the elements of its data that lie around the route
    \* wayCentres on its own
    batch,      \* a decoded response
    aggRes,     \* its outcome
    \* resolveName and point() on their own
    tagMap,     \* a tag map (the argument `tags`)
    named       \* the outcomes of resolveName and of point()

runVars ==
    <<pts, splits, pc, si, qi, pois, outputs, res, matches, found>>
fetchVars == <<cache, fpc, ftext, resp, rc, fres, freqs, fprior, cache0, paid>>
aggVars == <<batch, aggRes>>
classVars == <<tagMap, named>>
pureVars == <<aggVars, classVars>>
vars == <<runVars, fetchVars, pureVars, world>>

\* ----------------------------------------------------------------- strings
\* The characters the model's strings are made of, in byte order.
Alphabet ==
    << "\t", "\n", "\r", " ", "\"", "&", ",", "0", "1", "2", "3", "4", "5",
       "6", "7", "8", "9", ":", "<", ">", "A", "B", "C", "D", "F", "G", "H",
       "J", "M", "P", "R", "S", "W", "\\", "_", "a", "b", "c", "d", "e",
       "f", "g", "h", "i", "k", "l", "m", "n", "o", "p", "r", "s", "t", "u",
       "v", "w", "y", "z", "{", "}" >>

OrdTable ==
    [c \in {Alphabet[i] : i \in 1..Len(Alphabet)} |->
        CHOOSE i \in 1..Len(Alphabet) : Alphabet[i] = c]

Ord(c) == OrdTable[c]

\* Go's a < b on strings: bytewise lexicographic, a proper prefix first.
RECURSIVE StrLess(_, _)
StrLess(a, b) ==
    IF b = <<>> THEN FALSE
    ELSE IF a = <<>> THEN TRUE
    ELSE IF Head(a) # Head(b) THEN Ord(Head(a)) < Ord(Head(b))
    ELSE StrLess(Tail(a), Tail(b))

\* -------------------------------------------------------------- classifier
\* A tag map (map[string]interface{}) is a function from keys to values; a
\* value is [str |-> TRUE, text |-> s] for a JSON string s and
\* [str |-> FALSE, text |-> l] for any other JSON value, l being the text
\* json.Marshal writes for it.
Str(s) == [str |-> TRUE, text |-> s]
Num(l) == [str |-> FALSE, text |-> l]

\* The priority list of resolveName.
nameTags ==
    << <<"n","a","m","e">>,
       <<"a","m","e","n","i","t","y">>,
       <<"t","o","u","r","i","s","m">>,
       <<"l","e","i","s","u","r","e">>,
       <<"s","h","o","p">>,
       <<"w","a","t","e","r","w","a","y">>,
       <<"n","a","t","u","r","a","l">>,
       <<"b","o","u","n","d","a","r","y">> >>

\* n, ok := tags[tag].(string)
\* A type assertion that accepts a value of any type.
HasTag(tags, tag) == tag \in DOMAIN tags

IsStringTag(tags, tag) == tag \in DOMAIN tags /\ tags[tag].str

RECURSIVE resolveNameFrom(_, _)
resolveNameFrom(tags, i) ==
    IF i > Len(nameTags) THEN [ok |-> FALSE, name |-> <<>>]
    ELSE IF IsStringTag(tags, nameTags[i])
         THEN [ok |-> TRUE, name |-> tags[nameTags[i]].text]
         ELSE resolveNameFrom(tags, i + 1)

resolveName(tags) == resolveNameFrom(tags, 1)

\* The ordered matcher list of resolveSymbol.
symbolMatchers ==
    <<
      [tags |-> { << <<"s","h","o","p">>, <<"c","o","n","v","e","n","i","e","n","c","e">> >> },
       symbol |-> <<"S","h","o","p","p","i","n","g"," ","C","e","n","t","e","r">>],
      [tags |-> { << <<"s","h","o","p">>, <<"s","u","p","e","r","m","a","r","k","e","t">> >> },
       symbol |-> <<"S","h","o","p","p","i","n","g"," ","C","e","n","t","e","r">>],
      [tags |-> { << <<"l","e","i","s","u","r","e">>, <<"p","a","r","k">> >> },
       symbol |-> <<"P","a","r","k">>],
      [tags |-> { << <<"b","o","u","n","d","a","r","y">>, <<"p","r","o","t","e","c","t","e","d","_","a","r","e","a">> >> },
       symbol |-> <<"P","a","r","k">>],
      [tags |-> { << <<"a","m","e","n","i","t","y">>, <<"t","o","i","l","e","t","s">> >> },
       symbol |-> <<"R","e","s","t","r","o","o","m">>],
      [tags |-> { << <<"a","m","e","n","i","t","y">>, <<"d","r","i","n","k","i","n","g","_","w","a","t","e","r">> >> },
       symbol |-> <<"D","r","i","n","k","i","n","g"," ","W","a","t","e","r">>],
      [tags |-> { << <<"n","a","t","u","r","a","l">>, <<"p","e","a","k">> >> },
       symbol |-> <<"S","u","m","m","i","t">>],
      [tags |-> { << <<"n","a","t","u","r","a","l">>, <<"s","a","d","d","l","e">> >> },
       symbol |-> <<"S","u","m","m","i","t">>],
      [tags |-> { << <<"m","o","u","n","t","a","i","n","_","p","a","s","s">>, <<"y","e","s">> >> },
       symbol |-> <<"S","u","m","m","i","t">>],
      [tags |-> { << <<"t","o","u","r","i","s","m">>, <<"v","i","e","w","p","o","i","n","t">> >> },
       symbol |-> <<"S","c","e","n","i","c"," ","A","r","e","a">>],
      [tags |-> { << <<"a","m","e","n","i","t","y">>, <<"b","i","c","y","c","l","e","_","r","e","p","a","i","r","_","s","t","a","t","i","o","n">> >> },
       symbol |-> <<"M","i","n","e">>],
      [tags |-> { << <<"a","m","e","n","i","t","y">>, <<"f","a","s","t","_","f","o","o","d">> >> },
       symbol |-> <<"F","a","s","t"," ","F","o","o","d">>],
      [tags |-> { << <<"a","m","e","n","i","t","y">>, <<"f","u","e","l">> >> },
       symbol |-> <<"G","a","s"," ","S","t","a","t","i","o","n">>],
      [tags |-> { << <<"a","m","e","n","i","t","y">>, <<"p","u","b">> >> },
       symbol |-> <<"B","a","r">>],
      [tags |-> { << <<"a","m","e","n","i","t","y">>, <<"b","a","r">> >> },
       symbol |-> <<"B","a","r">>],
      [tags |-> { << <<"a","m","e","n","i","t","y">>, <<"c","a","f","e">> >> },
       symbol |-> <<"R","e","s","t","a","u","r","a","n","t">>],
      [tags |-> { << <<"t","o","u","r","i","s","m">>, <<"p","i","c","n","i","c","_","s","i","t","e">> >> },
       symbol |-> <<"P","i","c","n","i","c"," ","A","r","e","a">>],
      [tags |-> { << <<"a","m","e","n","i","t","y">>, <<"r","e","s","t","a","u","r","a","n","t">> >>, << <<"c","u","i","s","i","n","e">>, <<"p","i","z","z","a">> >> },
       symbol |-> <<"P","i","z","z","a">>],
      [tags |-> { << <<"a","m","e","n","i","t","y">>, <<"r","e","s","t","a","u","r","a","n","t">> >> },
       symbol |-> <<"R","e","s","t","a","u","r","a","n","t">>],
      [tags |-> { << <<"a","m","e","n","i","t","y">>, <<"i","c","e","_","c","r","e","a","m">> >> },
       symbol |-> <<"F","a","s","t"," ","F","o","o","d">>],
      [tags |-> { << <<"t","o","u","r","i","s","m">>, <<"c","a","m","p","_","p","i","t","c","h">> >> },
       symbol |-> <<"C","a","m","p","g","r","o","u","n","d">>],
      [tags |-> { << <<"t","o","u","r","i","s","m">>, <<"c","a","m","p","_","s","i","t","e">> >> },
       symbol |-> <<"C","a","m","p","g","r","o","u","n","d">>],
      [tags |-> { << <<"l","e","i","s","u","r","e">>, <<"n","a","t","u","r","e","_","r","e","s","e","r","v","e">> >> },
       symbol |-> <<"P","a","r","k">>],
      [tags |-> { << <<"a","m","e","n","i","t","y">>, <<"s","h","e","l","t","e","r">> >> },
       symbol |-> <<"B","u","i","l","d","i","n","g">>],
      [tags |-> { << <<"a","m","e","n","i","t","y">>, <<"p","l","a","c","e","_","o","f","_","w","o","r","s","h","i","p">> >> },
       symbol |-> <<"C","h","u","r","c","h">>],
      [tags |-> { << <<"p","l","a","c","e">>, <<"t","o","w","n">> >> },
       symbol |-> <<"C","i","t","y"," ","H","a","l","l">>],
      [tags |-> { << <<"p","l","a","c","e">>, <<"v","i","l","l","a","g","e">> >> },
       symbol |-> <<"C","i","t","y"," ","H","a","l","l">>],
      [tags |-> { << <<"p","l","a","c","e">>, <<"h","a","m","l","e","t">> >> },
       symbol |-> <<"C","i","t","y"," ","H","a","l","l">>],
      [tags |-> { << <<"p","l","a","c","e">>, <<"c","i","t","y">> >> },
       symbol |-> <<"C","i","t","y"," ","H","a","l","l">>],
      [tags |-> { << <<"p","l","a","c","e">>, <<"n","e","i","g","h","b","o","u","r","h","o","o","d">> >> },
       symbol |-> <<"C","i","t","y"," ","H","a","l","l">>],
      [tags |-> { << <<"w","a","t","e","r","w","a","y">>, <<"r","i","v","e","r">> >> },
       symbol |-> <<"W","a","t","e","r"," ","S","o","u","r","c","e">>]
    >>

\* v, ok := tags[k]; !ok || v != matcherV, for every pair of the matcher
MatcherMatches(tags, m) ==
    \A kv \in m.tags :
        /\ kv[1] \in DOMAIN tags
        /\ tags[kv[1]] = Str(kv[2])

RECURSIVE resolveSymbolFrom(_, _)
resolveSymbolFrom(tags, i) ==
    IF i > Len(symbolMatchers) THEN <<>>
    ELSE IF MatcherMatches(tags, symbolMatchers[i])
         THEN symbolMatchers[i].symbol
         ELSE resolveSymbolFrom(tags, i + 1)

resolveSymbol(tags) == resolveSymbolFrom(tags, 1)

\* The least string of a non-empty set, bytewise.
MinStr(S) == CHOOSE a \in S : \A b \in S \ {a} : StrLess(a, b)

\* encoding/json writes a map's keys in sorted order.
RECURSIVE SortedKeys(_)
SortedKeys(S) ==
    IF S = {} THEN <<>> ELSE <<MinStr(S)>> \o SortedKeys(S \ {MinStr(S)})

\* encoding/json writes a string between quotes and escapes the quote, the
\* backslash, the control characters and, for HTML safety, < > and &.
EscapeChar(c) ==
    CASE c = "\"" -> <<"\\", "\"">>
      [] c = "\\" -> <<"\\", "\\">>
      [] c = "\n" -> <<"\\", "n">>
      [] c = "\r" -> <<"\\", "r">>
      [] c = "\t" -> <<"\\", "t">>
      [] c = "<" -> <<"\\", "u", "0", "0", "3", "c">>
      [] c = ">" -> <<"\\", "u", "0", "0", "3", "e">>
      [] c = "&" -> <<"\\", "u", "0", "0", "2", "6">>
      [] OTHER -> <<c>>

RECURSIVE Escape(_)
Escape(s) == IF s = <<>> THEN <<>> ELSE EscapeChar(Head(s)) \o Escape(Tail(s))

Quoted(s) == <<"\"">> \o Escape(s) \o <<"\"">>

MarshalValue(v) == IF v.str THEN Quoted(v.text) ELSE v.text

RECURSIVE MarshalPairs(_, _)
MarshalPairs(tags, keys) ==
    IF keys = <<>> THEN <<>>
    ELSE Quoted(Head(keys)) \o <<":">> \o MarshalValue(tags[Head(keys)])
           \o (IF Len(keys) > 1 THEN <<",">> ELSE <<>>)
           \o MarshalPairs(tags, Tail(keys))

\* json.Marshal(tags)
Marshal(tags) ==
    <<"{">> \o MarshalPairs(tags, SortedKeys(DOMAIN tags)) \o <<"}">>

\* The closure returned by point(): "error" when no name resolves, "panic"
\* when the statistics loop asserts value.(string) on another kind of value.
getPoint(tags, latLon) ==
    IF ~resolveName(tags).ok THEN [kind |-> "error"]
    ELSE IF \E k \in DOMAIN tags : ~tags[k].str THEN [kind |-> "panic"]
    ELSE [kind |-> "ok",
          pt |-> [Name |-> resolveName(tags).name,
                  Lat |-> latLon.Lat,
                  Lon |-> latLon.Lon,
                  Description |-> Marshal(tags),
                  Symbol |-> resolveSymbol(tags)]]

\* ---------------------------------------------------------------- elements
\* Decoded elements (type element) the upstream service may return. The
\* centre of WayShelter, made of NodeBar and NodePlain, is 1.5e-7 + 5e-7,
\* which float64 addition rounds to 6.499999999999999e-07.
S_name == <<"n","a","m","e">>
S_amenity == <<"a","m","e","n","i","t","y">>
S_drinking_water == <<"d","r","i","n","k","i","n","g","_","w","a","t","e","r">>
S_capacity == <<"c","a","p","a","c","i","t","y">>

NodeFountain ==
    [Type |-> "node", ID |-> 1, Lat |-> 2, Lon |-> 2, Nodes |-> <<>>,
     Tags |-> (S_name :> Str(<<"B">>))
                @@ (S_amenity :> Str(<<"f","o","u","n","t","a","i","n">>))
                @@ (S_drinking_water :> Str(<<"y","e","s">>))]
NodeBar ==
    [Type |-> "node", ID |-> 2, Lat |-> 3, Lon |-> 10, Nodes |-> <<>>,
     Tags |-> (S_amenity :> Str(<<"b","a","r">>))]
NodePlain ==
    [Type |-> "node", ID |-> 3, Lat |-> 10, Lon |-> 3, Nodes |-> <<>>,
     Tags |-> << >>]
\* Three bars that carry the same tags and differ in their place alone: two
\* on one latitude, the eastern one with the lower id, and one on the
\* opposite latitude; and a bar that has drinking water.
NodeBarEast ==
    [Type |-> "node", ID |-> 5, Lat |-> 3, Lon |-> 11, Nodes |-> <<>>,
     Tags |-> (S_amenity :> Str(<<"b","a","r">>))]
NodeBarWest ==
    [Type |-> "node", ID |-> 6, Lat |-> 3, Lon |-> 9, Nodes |-> <<>>,
     Tags |-> (S_amenity :> Str(<<"b","a","r">>))]
NodeBarSouth ==
    [Type |-> "node", ID |-> 7, Lat |-> 0 - 3, Lon |-> 12, Nodes |-> <<>>,
     Tags |-> (S_amenity :> Str(<<"b","a","r">>))]
NodeBarTap ==
    [Type |-> "node", ID |-> 8, Lat |-> 3, Lon |-> 9, Nodes |-> <<>>,
     Tags |-> (S_amenity :> Str(<<"b","a","r">>))
                @@ (S_drinking_water :> Str(<<"y","e","s">>))]
NodeTap ==
    [Type |-> "node", ID |-> 4, Lat |-> 2, Lon |-> 4, Nodes |-> <<>>,
     Tags |-> (S_drinking_water :> Str(<<"y","e","s">>))]
WayCount ==
    [Type |-> "way", ID |-> 14, Lat |-> 0, Lon |-> 0, Nodes |-> <<3>>,
     Tags |-> (S_name :> Str(<<"J">>))
                @@ (S_amenity :> Str(<<"s","h","e","l","t","e","r">>))
                @@ (S_capacity :> Num(<<"4">>))]
WayShelter ==
    [Type |-> "way", ID |-> 10, Lat |-> 0, Lon |-> 0, Nodes |-> <<2, 3>>,
     Tags |-> (S_name :> Str(<<"B">>))
                @@ (S_amenity :> Str(<<"s","h","e","l","t","e","r">>))]
WayPub ==
    [Type |-> "way", ID |-> 11, Lat |-> 0, Lon |-> 0, Nodes |-> <<1>>,
     Tags |-> (S_name :> Str(<<"A">>)) @@ (S_amenity :> Str(<<"p","u","b">>))]
WayEmpty ==
    [Type |-> "way", ID |-> 12, Lat |-> 0, Lon |-> 0, Nodes |-> <<>>,
     Tags |-> (S_name :> Str(<<"A">>))]
WayDangling ==
    [Type |-> "way", ID |-> 13, Lat |-> 0, Lon |-> 0, Nodes |-> <<3, 9>>,
     Tags |-> (S_name :> Str(<<"A">>)) @@ (S_amenity :> Str(<<"p","u","b">>))]
Relation ==
    [Type |-> "relation", ID |-> 20, Lat |-> 0, Lon |-> 0, Nodes |-> <<>>,
     Tags |-> (S_name :> Str(<<"A">>))]

ElementPool ==
    {NodeFountain, NodeBar, NodePlain,
     WayShelter, WayPub, WayEmpty, WayDangling, WayCount, Relation}

\* -------------------------------------------------------------- aggregator
\* The injective sequences over a finite set: the orders in which a Go map
\* may be ranged over.
Orders(S) ==
    {s \in [1..Cardinality(S) -> S] :
        \A i, j \in 1..Cardinality(S) : s[i] = s[j] => i = j}

\* nodes[e.ID] = e / ways[e.ID] = e over the response, a later element of
\* the same id replacing an earlier one.
RECURSIVE ByID(_, _)
ByID(els, type) ==
    IF els = <<>> THEN << >>
    ELSE LET e == els[Len(els)]
             rest == ByID(SubSeq(els, 1, Len(els) - 1), type)
         IN IF e.Type = type THEN (e.ID :> e) @@ rest ELSE rest

\* A way without nodes is taken for a point at the origin.
WayErrorIgnoringEmpty(way, nodes) ==
    IF \E i \in 1..Len(way.Nodes) : way.Nodes[i] \notin DOMAIN nodes
    THEN "node not found"
    ELSE "none"

\* The failure of one way: it has no nodes, or one of them is not found.
WayError(way, nodes) ==
    IF Len(way.Nodes) = 0 THEN "no nodes for way"
    ELSE IF \E i \in 1..Len(way.Nodes) : way.Nodes[i] \notin DOMAIN nodes
         THEN "node not found"
         ELSE "none"

\* A LatLon holds float64 coordinates. A float64 is [neg, man, exp]: its
\* magnitude is man * 2^exp, where man, a natural number of exactly 53 bits,
\* is written in base 2^14 as a sequence of limbs, the least significant
\* first; zero is [neg |-> FALSE, man |-> <<>>, exp |-> 0]. Every operation
\* rounds its exact result to 53 bits, to nearest and ties to even, as the
\* hardware does. The coordinates lie far from the subnormal and the
\* overflow range, which are left out.
LimbBase == 16384

\* Natural numbers of any size: limbs, least significant first, the most
\* significant one not zero.
RECURSIVE BigTrim(_)
BigTrim(a) ==
    IF a = <<>> THEN <<>>
    ELSE IF a[Len(a)] = 0 THEN BigTrim(SubSeq(a, 1, Len(a) - 1))
    ELSE a

RECURSIVE BigOfInt(_)
BigOfInt(x) ==
    IF x = 0 THEN <<>> ELSE <<x % LimbBase>> \o BigOfInt(x \div LimbBase)

LowLimb(a) == IF a = <<>> THEN 0 ELSE Head(a)

HighLimbs(a) == IF a = <<>> THEN <<>> ELSE Tail(a)

\* a + b + c
RECURSIVE BigAdd(_, _, _)
BigAdd(a, b, c) ==
    IF a = <<>> /\ b = <<>> THEN (IF c = 0 THEN <<>> ELSE <<c>>)
    ELSE LET t == LowLimb(a) + LowLimb(b) + c
         IN <<t % LimbBase>>
              \o BigAdd(HighLimbs(a), HighLimbs(b), t \div LimbBase)

\* a - b - borrow, for a >= b + borrow, before trimming
RECURSIVE BigSubFrom(_, _, _)
BigSubFrom(a, b, borrow) ==
    IF a = <<>> THEN <<>>
    ELSE LET t == Head(a) - LowLimb(b) - borrow
         IN <<t % LimbBase>>
              \o BigSubFrom(Tail(a), HighLimbs(b), IF t < 0 THEN 1 ELSE 0)

BigSub(a, b) == BigTrim(BigSubFrom(a, b, 0))

BigLess(a, b) ==
    IF Len(a) # Len(b) THEN Len(a) < Len(b)
    ELSE \E i \in 1..Len(a) :
            a[i] < b[i] /\ \A j \in (i + 1)..Len(a) : a[j] = b[j]

\* a * m + c, for m of at most 14 bits
RECURSIVE BigTimes(_, _, _)
BigTimes(a, m, c) ==
    IF a = <<>> THEN (IF c = 0 THEN <<>> ELSE <<c>>)
    ELSE LET t == Head(a) * m + c
         IN <<t % LimbBase>> \o BigTimes(Tail(a), m, t \div LimbBase)

\* a * 2^k
BigShl(a, k) ==
    IF a = <<>> THEN <<>>
    ELSE [i \in 1..(k \div 14) |-> 0] \o BigTimes(a, 2 ^ (k % 14), 0)

\* The quotient and the remainder of a by n, for n of at most 17 bits:
\* long division from limb i down, r being the remainder so far.
RECURSIVE BigDivFrom(_, _, _, _, _)
BigDivFrom(a, n, i, r, acc) ==
    IF i = 0 THEN [quot |-> BigTrim(acc), rem |-> r]
    ELSE LET cur == r * LimbBase + a[i]
         IN BigDivFrom(a, n, i - 1, cur % n, <<cur \div n>> \o acc)

BigDiv(a, n) == BigDivFrom(a, n, Len(a), 0, <<>>)

\* a \div 2^k
BigShr(a, k) ==
    IF k \div 14 >= Len(a) THEN <<>>
    ELSE BigDiv(SubSeq(a, k \div 14 + 1, Len(a)), 2 ^ (k % 14)).quot

\* The number of bits of a.
BigBitLen(a) ==
    IF a = <<>> THEN 0
    ELSE 14 * (Len(a) - 1)
           + (CHOOSE k \in 1..14 :
                2 ^ (k - 1) <= a[Len(a)] /\ a[Len(a)] < 2 ^ k)

BigOdd(a) == a # <<>> /\ a[1] % 2 = 1

\* The magnitude nearest to a * 2^e, or to a value above it by less than
\* 2^e when `sticky`, as [man, exp]. A value that is not exact comes with
\* two bits or more beyond the 53.
Round53(a, e, sticky) ==
    LET len == BigBitLen(a)
        sh == len - 53
        m2 == BigShr(a, sh - 1)
        lost == sticky \/ BigShl(m2, sh - 1) # a
        m == BigShr(m2, 1)
        up == BigOdd(m2) /\ (lost \/ BigOdd(m))
        m1 == IF up THEN BigAdd(m, <<1>>, 0) ELSE m
    IN  IF len = 0 THEN [man |-> <<>>, exp |-> 0]
        ELSE IF len <= 53
        THEN [man |-> BigShl(a, 53 - len), exp |-> e - (53 - len)]
        ELSE IF BigBitLen(m1) = 54
        THEN [man |-> BigShr(m1, 1), exp |-> e + sh + 1]
        ELSE [man |-> m1, exp |-> e + sh]

F64(neg, mag) == [neg |-> neg /\ mag.man # <<>>, man |-> mag.man, exp |-> mag.exp]

F64Zero == [neg |-> FALSE, man |-> <<>>, exp |-> 0]

Abs(n) == IF n < 0 THEN 0 - n ELSE n

\* The float64 that encoding/json decodes from the decimal text of x, a
\* count of 1e-7: the nearest to x / 10^7 = (x / 5^7) / 2^7.
F64Of(x) ==
    LET d == BigDiv(BigShl(BigOfInt(Abs(x)), 80), 78125)
    IN  IF x = 0 THEN F64Zero
        ELSE F64(x < 0, Round53(d.quot, 0 - 87, d.rem # 0))

\* f / float64(n), n >= 1
F64Div(f, n) ==
    LET d == BigDiv(BigShl(f.man, 28), n)
    IN  IF f.man = <<>> THEN f
        ELSE F64(f.neg, Round53(d.quot, f.exp - 28, d.rem # 0))

\* a + b
F64Add(a, b) ==
    LET lo == IF a.exp < b.exp THEN a.exp ELSE b.exp
        x == BigShl(a.man, a.exp - lo)
        y == BigShl(b.man, b.exp - lo)
    IN  IF a.man = <<>> THEN b
        ELSE IF b.man = <<>> THEN a
        ELSE IF a.exp - b.exp > 64 THEN a
        ELSE IF b.exp - a.exp > 64 THEN b
        ELSE IF a.neg = b.neg THEN F64(a.neg, Round53(BigAdd(x, y, 0), lo, FALSE))
        ELSE IF x = y THEN F64Zero
        ELSE IF BigLess(x, y) THEN F64(b.neg, Round53(BigSub(y, x), lo, FALSE))
        ELSE F64(a.neg, Round53(BigSub(x, y), lo, FALSE))

\* |a| < |b|
MagLess(a, b) ==
    IF b.man = <<>> THEN FALSE
    ELSE IF a.man = <<>> THEN TRUE
    ELSE a.exp < b.exp \/ (a.exp = b.exp /\ BigLess(a.man, b.man))

\* a < b
F64Less(a, b) ==
    IF a.neg # b.neg THEN a.neg
    ELSE IF a.neg THEN MagLess(b, a)
    ELSE MagLess(a, b)

\* The coordinates of an element as a LatLon.
LatLonOf(e) == [Lat |-> F64Of(e.Lat), Lon |-> F64Of(e.Lon)]

\* centre.Lat += node.Lat / float64(len(way.Nodes)), and Lon alike
RECURSIVE CentreFrom(_, _, _, _)
CentreFrom(way, nodes, i, centre) ==
    IF i > Len(way.Nodes) THEN centre
    ELSE CentreFrom(way, nodes, i + 1,
            [Lat |-> F64Add(centre.Lat,
                        F64Div(F64Of(nodes[way.Nodes[i]].Lat),
                               Len(way.Nodes))),
             Lon |-> F64Add(centre.Lon,
                        F64Div(F64Of(nodes[way.Nodes[i]].Lon),
                               Len(way.Nodes)))])

WayCentreOf(way, nodes) ==
    [ID |-> way.ID,
     Centre |-> CentreFrom(way, nodes, 1,
                    [Lat |-> F64Zero, Lon |-> F64Zero]),
     Tags |-> way.Tags]

\* The outcomes of wayCentres on a decoded response (lines 565-599). The
\* ways are ranged over in map order: every order of the centres, and the
\* failure of any failing way, is a possible outcome.
WayCentresOutcomes(els) ==
    LET nodes == ByID(els, "node")
        ways == ByID(els, "way")
        waySet == {ways[id] : id \in DOMAIN ways}
        bad == {w \in waySet : WayError(w, nodes) # "none"}
    IN IF \E i \in 1..Len(els) : els[i].Type \notin {"node", "way"}
       THEN {[ok |-> FALSE, err |-> "unknown element type", centres |-> <<>>]}
       ELSE IF bad # {}
       THEN {[ok |-> FALSE, err |-> WayError(w, nodes), centres |-> <<>>] :
                w \in bad}
       ELSE {[ok |-> TRUE, err |-> "none", centres |-> o] :
                o \in Orders({WayCentreOf(w, nodes) : w \in waySet})}

\* --------------------------------------------------------- output ordering
\* The order on name, description and symbol, the place left out.
LessIgnoringPlace(a, b) ==
    IF a.Name # b.Name THEN StrLess(a.Name, b.Name)
    ELSE IF a.Description # b.Description
         THEN StrLess(a.Description, b.Description)
    ELSE StrLess(a.Symbol, b.Symbol)

\* The less function given to sort.Slice (lines 381-398).
Less(a, b) ==
    IF a = b THEN FALSE
    ELSE IF a.Name # b.Name THEN StrLess(a.Name, b.Name)
    ELSE IF a.Description # b.Description
         THEN StrLess(a.Description, b.Description)
    ELSE IF a.Symbol # b.Symbol THEN StrLess(a.Symbol, b.Symbol)
    ELSE IF a.Lat # b.Lat THEN F64Less(a.Lat, b.Lat)
    ELSE F64Less(a.Lon, b.Lon)

Swap(s, i, j) == [s EXCEPT ![i] = s[j], ![j] = s[i]]

\* for j := i; j > a && less(j, j-1); j-- { swap(j, j-1) }
RECURSIVE SinkBack(_, _)
SinkBack(s, j) ==
    IF j > 1 /\ Less(s[j], s[j - 1]) THEN SinkBack(Swap(s, j, j - 1), j - 1)
    ELSE s

RECURSIVE InsertionSortFrom(_, _)
InsertionSortFrom(s, i) ==
    IF i > Len(s) THEN s ELSE InsertionSortFrom(SinkBack(s, i), i + 1)

\* sort.Slice(pois, less). Package sort picks its algorithm by the length
\* of the slice (insertion sort up to twelve elements) and is not stable;
\* less orders any two POIs that differ, so every algorithm leaves the one
\* slice that insertion sort leaves.
SortSlice(s) == InsertionSortFrom(s, 2)

\* ------------------------------------------------------------------- route
\* Track points, in units of 1e-7 degrees. P0 and P1 differ only in the
\* seventh decimal place, where P1 holds a 5 that is rounded down.
P0 == [Latitude |-> 0, Longitude |-> 0]
P1 == [Latitude |-> 5, Longitude |-> 0]
P2 == [Latitude |-> 10, Longitude |-> 0]
RoutePool == {P0, P1, P2}

RECURSIVE RoutesOfLen(_)
RoutesOfLen(n) ==
    IF n = 0 THEN {<<>>}
    ELSE {Append(r, p) : r \in RoutesOfLen(n - 1), p \in RoutePool}

RoutesUpTo(n) == UNION {RoutesOfLen(k) : k \in 0..n}

\* --------------------------------------------------------------- segmenter
\* const split = 1: the number of chunks the route is to be cut into.
split == 1

\* Chunks of a single point.
ChunkSizeOne(n, k) == 1

\* chunkSize := len(pts) / split; if chunkSize < 1 { chunkSize = 1 }
ChunkSize(n, k) == IF n \div k < 1 THEN 1 ELSE n \div k

\* end := i + chunkSize; if end > len(pts) { end = len(pts) }
ChunkEnd(n, i, chunkSize) == IF i + chunkSize > n THEN n ELSE i + chunkSize

\* The slice taken one point late.
ChunkDropFirst(p, i, end) == SubSeq(p, i + 2, end)

\* pts[i:end] (i, end zero-based, end exclusive)
Chunk(p, i, end) == SubSeq(p, i + 1, end)

\* for i := 0; i < len(pts); i += chunkSize { splits = append(splits, ...) }
RECURSIVE SplitsFrom(_, _, _)
SplitsFrom(p, chunkSize, i) ==
    IF i >= Len(p) THEN <<>>
    ELSE <<Chunk(p, i, ChunkEnd(Len(p), i, chunkSize))>>
             \o SplitsFrom(p, chunkSize, i + chunkSize)

Splits(p, k) == SplitsFrom(p, ChunkSize(Len(p), k), 0)

\* ---------------------------------------------------------- query compiler
ExistsUndefined == 0
ExistsYes == 1
ExistsNo == 2

\* The rules of the source, in order.
queries ==
    <<
      [radius |-> 0,
       conditions |-> <<
          [tag |-> "amenity",
           values |-> <<"bar", "bicycle_rental", "bicycle_repair_station",
                          "bicycle_wash", "biergarten", "cafe", "compressed_air",
                          "fast_food", "food_court", "fountain", "fuel", "ice_cream",
                          "marketplace", "place_of_worship", "pub", "public_bath",
                          "restaurant", "shelter", "shower", "toilets">>,
           notValues |-> <<>>,
           exists |-> ExistsUndefined] >>],
      [radius |-> 200,
       conditions |-> <<
          [tag |-> "amenity",
           values |-> <<"drinking_water", "water_point", "watering_place">>,
           notValues |-> <<>>,
           exists |-> ExistsUndefined] >>],
      [radius |-> 0,
       conditions |-> <<
          [tag |-> "tourism",
           values |-> <<"alpine_hut", "camp_pitch", "camp_site", "guest_house",
                          "hostel", "picnic_site", "viewpoint", "wilderness_hut">>,
           notValues |-> <<>>,
           exists |-> ExistsUndefined] >>],
      [radius |-> 0,
       conditions |-> <<
          [tag |-> "leisure",
           values |-> <<"nature_reserve", "park", "picnic_table", "wildlife_hide">>,
           notValues |-> <<>>,
           exists |-> ExistsUndefined] >>],
      [radius |-> 0,
       conditions |-> <<
          [tag |-> "natural",
           values |-> <<"spring", "peak", "mountain_range", "ridge", "arete", "hot spring", "plateu", "saddle">>,
           notValues |-> <<>>,
           exists |-> ExistsUndefined] >>],
      [radius |-> 0,
       conditions |-> <<
          [tag |-> "boundary",
           values |-> <<"protected_area", "aboriginal_lands", "national_park",
                          "forest", "water_protection_area">>,
           notValues |-> <<>>,
           exists |-> ExistsUndefined] >>],
      [radius |-> 200,
       conditions |-> <<
          [tag |-> "man_made",
           values |-> <<"spring_box", "water_well", "water_tap", "drinking_fountain">>,
           notValues |-> <<>>,
           exists |-> ExistsUndefined] >>],
      [radius |-> 200,
       conditions |-> <<
          [tag |-> "drinking_water",
           values |-> <<"yes">>,
           notValues |-> <<>>,
           exists |-> ExistsUndefined] >>],
      [radius |-> 0,
       conditions |-> <<
          [tag |-> "waterway",
           values |-> <<>>,
           notValues |-> <<>>,
           exists |-> ExistsYes],
          [tag |-> "waterway",
           values |-> <<>>,
           notValues |-> <<"drain", "dam", "stream", "ditch", "canal">>,
           exists |-> ExistsUndefined] >>],
      [radius |-> 0,
       conditions |-> <<
          [tag |-> "place",
           values |-> <<"town", "village", "hamlet", "city", "neighbourhood">>,
           notValues |-> <<>>,
           exists |-> ExistsUndefined] >>],
      [radius |-> 200,
       conditions |-> <<
          [tag |-> "amenity",
           values |-> <<"fountain">>,
           notValues |-> <<>>,
           exists |-> ExistsUndefined],
          [tag |-> "drinking_water",
           values |-> <<>>,
           notValues |-> <<>>,
           exists |-> ExistsYes],
          [tag |-> "drinking_water",
           values |-> <<>>,
           notValues |-> <<"no">>,
           exists |-> ExistsUndefined] >>],
      [radius |-> 0,
       conditions |-> <<
          [tag |-> "shop",
           values |-> <<"bakery", "cheese", "coffee", "convenience", "dairy",
                          "farm", "food", "greengrocer", "health_food", "ice_cream",
                          "pastry", "tortilla", "water", "general", "kiosk",
                          "supermarket", "chemist", "bicycle", "sports">>,
           notValues |-> <<>>,
           exists |-> ExistsUndefined] >>],
      [radius |-> 0,
       conditions |-> <<
          [tag |-> "mountain_pass",
           values |-> <<"yes">>,
           notValues |-> <<>>,
           exists |-> ExistsUndefined] >>]
    >>

\* for i, query := range queries
Rules == queries

\* locus := 80; if query.radius != 0 { locus = query.radius }
Locus(query) == IF query.radius # 0 THEN query.radius ELSE 80

\* A coordinate x stands for the float64 nearest to x * 1e-7, the value
\* the GPX parser gives for a text of seven decimals.
DegreeUnit == 10000000

\* The float64 nearest to a / DegreeUnit (a > 0) is m / 2^e, with m of 53
\* bits: BinaryExponent(a) is e.
RECURSIVE Doublings(_)
Doublings(a) == IF a >= DegreeUnit THEN 0 ELSE 1 + Doublings(2 * a)

RECURSIVE Halvings(_)
Halvings(a) == IF a < 2 * DegreeUnit THEN 0 ELSE 1 + Halvings(a \div 2)

BinaryExponent(a) == 52 + Doublings(a) - Halvings(a)

\* (r * 2^e) % DegreeUnit for r < DegreeUnit, seven doublings at a time
\* while the product stays within 32 bits.
RECURSIVE TimesPow2Mod(_, _)
TimesPow2Mod(r, e) ==
    IF e = 0 THEN r
    ELSE IF e >= 7 THEN TimesPow2Mod((128 * r) % DegreeUnit, e - 7)
    ELSE TimesPow2Mod((2 * r) % DegreeUnit, e - 1)

\* The digits of |x| to six decimals, as a count of 1e-6. A seventh decimal
\* other than 5 decides by itself. At a 5 the float64 decides: it lies
\* below a / DegreeUnit when the remainder of a * 2^e by DegreeUnit is under
\* a half, above when over, and when it is a / DegreeUnit exactly the tie
\* goes to the even digit.
BinaryRemainder(a) == TimesPow2Mod(a % DegreeUnit, BinaryExponent(a))

RoundMicro(a) ==
    LET q == a \div 10
        d == a % 10
    IN  IF d < 5 THEN q
        ELSE IF d > 5 THEN q + 1
        ELSE IF BinaryRemainder(a) = 0 THEN (IF q % 2 = 0 THEN q ELSE q + 1)
        ELSE IF 2 * BinaryRemainder(a) < DegreeUnit THEN q
        ELSE q + 1

\* strconv.FormatFloat(x, 'f', 6, 64): the sign and the digits of the
\* text; a negative value keeps its sign when its digits are all zero.
FormatFloat6(x) ==
    [neg |-> x < 0, micro |-> RoundMicro(IF x < 0 THEN 0 - x ELSE x)]

\* queryRouteComponent: the around clause, the recursion and the output
\* directive, as [locus, the formatted coordinates]; fails on an empty route.
queryRouteComponent(locus, route) ==
    IF Len(route) = 0
    THEN [ok |-> FALSE, text |-> <<>>]
    ELSE [ok |-> TRUE,
          text |-> <<locus,
                     [i \in 1..Len(route) |->
                        <<FormatFloat6(route[i].Latitude),
                          FormatFloat6(route[i].Longitude)>>]>>]

\* How many of 'not', 'values' and 'exists' a condition sets.
DefinedConditions(c) ==
    (IF Len(c.notValues) > 0 THEN 1 ELSE 0)
      + (IF Len(c.values) > 0 THEN 1 ELSE 0)
      + (IF c.exists # ExistsUndefined THEN 1 ELSE 0)

ConditionValid(c) ==
    /\ DefinedConditions(c) = 1
    /\ c.exists \in {ExistsUndefined, ExistsYes, ExistsNo}

\* The filters one condition renders to, each a token sequence.
ElementConditions(c) ==
    IF Len(c.values) > 0 THEN << <<c.tag, "~", c.values>> >>
    ELSE IF Len(c.notValues) > 0
    THEN [i \in 1..Len(c.notValues) |-> <<c.tag, "!=", <<c.notValues[i]>> >>]
    ELSE IF c.exists = ExistsYes THEN << <<c.tag, "", <<>> >> >>
    ELSE << <<c.tag, "!", <<>> >> >>

RECURSIVE RenderConditions(_)
RenderConditions(cs) ==
    IF cs = <<>> THEN <<>>
    ELSE ElementConditions(Head(cs)) \o RenderConditions(Tail(cs))

\* The rendered query (lines 603-647): "[out:json];" + queryType, the
\* filters in condition order, then the route component.
RenderQuery(queryType, conditions, route) ==
    IF \E i \in 1..Len(conditions) : ~ConditionValid(conditions[i])
    THEN [ok |-> FALSE, text |-> <<>>]
    ELSE [ok |-> TRUE,
          text |-> <<queryType, RenderConditions(conditions), route>>]

\* The cache key: the URL-safe base64 of the SHA-1 of the query text. The
\* digest is taken to be free of collisions, so a key stands for its text.
Sha(text) == <<"sha1", text>>

\* --------------------------------------------------------- response bodies
\* A body is a sequence of tokens; a token is the opening or closing of the
\* JSON object, one element of "elements", or text that is no JSON.
NoElement ==
    [Type |-> "", ID |-> 0, Lat |-> 0, Lon |-> 0, Nodes |-> <<>>, Tags |-> << >>]
Open == [kind |-> "{", elem |-> NoElement]
Close == [kind |-> "}", elem |-> NoElement]
Garbage == [kind |-> "<html>", elem |-> NoElement]
Elem(e) == [kind |-> "element", elem |-> e]

\* An answer that is no JSON, such as an error page.
BodyHTML == <<Garbage>>

\* ------------------------------------------------------ the upstream service
\* The service holds map data and answers a query with the elements of the
\* queried type that satisfy the filters of the query, followed by the
\* points those elements are made of ("(._;>;);"). The route points of the
\* model lie within a metre of one another and of every element, so every
\* element of the data is around every route.
\*
\* The words of the elements' tags as the filters spell them.
Spelling ==
    (S_name :> "name") @@ (S_amenity :> "amenity")
      @@ (S_drinking_water :> "drinking_water") @@ (S_capacity :> "capacity")
      @@ (<<"f","o","u","n","t","a","i","n">> :> "fountain")
      @@ (<<"b","a","r">> :> "bar") @@ (<<"p","u","b">> :> "pub")
      @@ (<<"s","h","e","l","t","e","r">> :> "shelter")
      @@ (<<"y","e","s">> :> "yes")

Spelled(w) == IF w \in DOMAIN Spelling THEN Spelling[w] ELSE ""

\* One rendered filter <<tag, operator, values>> on a tag map.
FilterHolds(tags, f) ==
    LET ks == {k \in DOMAIN tags : Spelled(k) = f[1]}
    IN  CASE f[2] = "~" ->
               \E k \in ks : \E i \in 1..Len(f[3]) :
                   tags[k].str /\ Spelled(tags[k].text) = f[3][i]
          [] f[2] = "!=" ->
               \A k \in ks : Spelled(tags[k].text) # f[3][1]
          [] f[2] = "" -> ks # {}
          [] OTHER -> ks = {}

Satisfies(e, filters) ==
    \A i \in 1..Len(filters) : FilterHolds(e.Tags, filters[i])

\* A set of elements as tokens, in the order of their ids.
RECURSIVE InIdOrder(_)
InIdOrder(S) ==
    IF S = {} THEN <<>>
    ELSE LET e == CHOOSE x \in S : \A y \in S : x.ID <= y.ID
         IN <<Elem(e)>> \o InIdOrder(S \ {e})

\* The answer of the service holding `data` to a rendered query.
Answer(data, text) ==
    LET hits == {e \in data : e.Type = text[1] /\ Satisfies(e, text[2])}
        below == {n \in data :
                    /\ n.Type = "node"
                    /\ \E w \in hits : \E i \in 1..Len(w.Nodes) :
                          w.Nodes[i] = n.ID}
    IN <<Open>> \o InIdOrder(hits) \o InIdOrder(below \ hits) \o <<Close>>

\* The data sets: none; a town; a street of bars; a polyline that refers to
\* a point the data lacks; a polyline with a tag that is a number; a tap
\* without a name.
DataNone == {}
DataTown == {NodeFountain, NodeBar, NodePlain, WayShelter, WayPub}
DataBars == {NodeBarEast, NodeBarWest, NodeBarSouth, NodeBarTap}
DataDangling == {NodePlain, WayDangling}
DataCount == {NodePlain, WayCount}
DataTap == {NodeTap}

Worlds == {DataNone, DataTown, DataBars, DataDangling, DataCount, DataTap}

\* The status codes the service answers with.
StatusOK == 200
Statuses == {StatusOK, 204, 429}

\* The position of the first closing token, 0 when there is none.
FirstClose(bytes) ==
    IF \E i \in 1..Len(bytes) : bytes[i].kind = "}"
    THEN CHOOSE i \in 1..Len(bytes) :
            /\ bytes[i].kind = "}"
            /\ \A j \in 1..(i - 1) : bytes[j].kind # "}"
    ELSE 0

Ok(elements) == [ok |-> TRUE, err |-> "none", elements |-> elements]
Err(msg) == [ok |-> FALSE, err |-> msg, elements |-> <<>>]

\* json.NewDecoder(rc).Decode(&r): the first JSON value of the stream; a
\* stream that ends before the object closes, or is no JSON, is an error.
Decode(bytes) ==
    LET c == FirstClose(bytes)
    IN IF /\ c >= 2
          /\ bytes[1].kind = "{"
          /\ \A j \in 2..(c - 1) : bytes[j].kind = "element"
       THEN Ok([j \in 1..(c - 2) |-> bytes[j + 1].elem])
       ELSE Err("decoding response body")

\* ------------------------------------------------------------- query cache
\* The cache file never found.
NeverCached(files, key) == FALSE

\* os.Open(queryStateFilePath) succeeds: the key names a file of dataDir.
IsCached(files, key) == key \in DOMAIN files

\* Every status taken for a success.
AnyStatusAccepted(status) == FALSE

\* resp.StatusCode != http.StatusOK
StatusRejected(status) == status # StatusOK

NoResp == [status |-> 0, body |-> <<>>]

\* queryResponseElements is entered with a rendered query.
CallFetch(text) ==
    /\ ftext' = text
    /\ fpc' = "open"
    /\ freqs' = 0
    /\ fprior' = IF Sha(text) \in DOMAIN paid THEN <<paid[Sha(text)]>> ELSE <<>>
    /\ cache0' = cache
    /\ resp' = NoResp
    /\ rc' = <<>>
    /\ fres' = Err("pending")

\* Lines 654-660: the cache file is opened; a file that is there is read
\* (a hit), a file that is not there sends the query to the API.
FetchOpen ==
    /\ fpc = "open"
    /\ IF IsCached(cache, Sha(ftext))
       THEN /\ rc' = cache[Sha(ftext)]
            /\ fpc' = "decode"
       ELSE /\ rc' = rc
            /\ fpc' = "post"
    /\ UNCHANGED <<cache, ftext, resp, fres, freqs, fprior, cache0, paid,
                   runVars, pureVars>>
    /\ UNCHANGED world

\* Lines 662-674: one POST. The request fails, or is answered with a status
\* and a body; a status other than 200 is an error, the body going to
\* os.Stderr, and on 200 the cache file is created (os.O_RDWR|os.O_CREATE).
FetchPost ==
    /\ fpc = "post"
    /\ freqs' = freqs + 1
    /\ \/ /\ fres' = Err("posting query")
          /\ fpc' = "done"
          /\ UNCHANGED <<resp, cache>>
       \/ \E status \in Statuses, body \in {Answer(world, ftext), BodyHTML} :
            IF StatusRejected(status)
            THEN /\ resp' = [status |-> status, body |-> <<>>]
                 /\ fres' = Err("unexpected status code")
                 /\ fpc' = "done"
                 /\ cache' = cache
            ELSE /\ resp' = [status |-> status, body |-> body]
                 /\ fres' = fres
                 /\ fpc' = "copy"
                 /\ cache' = (Sha(ftext) :> <<>>) @@ cache
    /\ UNCHANGED <<ftext, rc, fprior, cache0, paid,
                   runVars, pureVars>>
    /\ UNCHANGED world

\* The body handed to the decoder without being copied to the file.
FetchCopySkipped ==
    /\ fpc = "copy"
    /\ rc' = resp.body
    /\ paid' = (Sha(ftext) :> resp.body) @@ paid
    /\ fpc' = "decode"
    /\ UNCHANGED <<cache, ftext, resp, fres, freqs, fprior, cache0,
                   runVars, pureVars>>
    /\ UNCHANGED world

\* The errors of lines 675-684 after which the call returns.
CopyErrors ==
    {"outputing response body", "closing response body",
     "seeking to start of query response state file"}

\* Lines 675-685: io.Copy(file, resp.Body), resp.Body.Close(), file.Seek,
\* then the file becomes the reader. The copy writes any part of the body
\* and fails, the connection breaking or the write failing, or it writes
\* the whole body; after the whole body is in the file, io.Copy may still
\* report an error of the connection, and closing the body or rewinding the
\* file may fail. On every error the call returns and the file stays as
\* it is.
FetchCopy ==
    /\ fpc = "copy"
    /\ \E k \in 0..Len(resp.body), err \in CopyErrors \cup {"none"} :
         /\ k < Len(resp.body) => err = "outputing response body"
         /\ cache' = [cache EXCEPT ![Sha(ftext)] = SubSeq(resp.body, 1, k)]
         /\ paid' = IF k = Len(resp.body)
                    THEN (Sha(ftext) :> resp.body) @@ paid
                    ELSE paid
         /\ IF err = "none"
            THEN /\ rc' = cache'[Sha(ftext)]
                 /\ fres' = fres
                 /\ fpc' = "decode"
            ELSE /\ rc' = rc
                 /\ fres' = Err(err)
                 /\ fpc' = "done"
    /\ UNCHANGED <<ftext, resp, freqs, fprior, cache0,
                   runVars, pureVars>>
    /\ UNCHANGED world

\* Lines 690-698: the reader is decoded and its elements returned.
FetchDecode ==
    /\ fpc = "decode"
    /\ fres' = Decode(rc)
    /\ fpc' = "done"
    /\ UNCHANGED <<cache, ftext, resp, rc, freqs, fprior, cache0, paid,
                   runVars, pureVars>>
    /\ UNCHANGED world

\* ----------------------------------------------------------------- mainErr
\* The routes of a whole run.
RunPool == {P0, P2}

RECURSIVE RunRoutesOfLen(_)
RunRoutesOfLen(n) ==
    IF n = 0 THEN {<<>>}
    ELSE {Append(r, p) : r \in RunRoutesOfLen(n - 1), p \in RunPool}

\* mainErr returns an error (or the process panics): nothing more runs.
Fail(kind) ==
    /\ pc' = "done"
    /\ res' = kind
    /\ fpc' = "idle"

\* Lines 316-330: the route is cut into chunks.
Segment ==
    /\ pc = "segment"
    /\ splits' = Splits(pts, split)
    /\ pc' = "chunk"
    /\ UNCHANGED <<pts, si, qi, pois, outputs, res, matches, found,
                   fetchVars, pureVars>>
    /\ UNCHANGED world

\* Line 334: the next chunk, with a fresh POI list, or the end of the run.
NextChunk ==
    /\ pc = "chunk"
    /\ IF si = Len(splits)
       THEN /\ pc' = "done"
            /\ res' = "ok"
            /\ UNCHANGED <<si, qi, pois, matches>>
       ELSE /\ si' = si + 1
            /\ qi' = 0
            /\ pois' = <<>>
            /\ matches' = {}
            /\ pc' = "rule"
            /\ res' = res
    /\ UNCHANGED <<pts, splits, outputs, found, fetchVars, pureVars>>
    /\ UNCHANGED world

\* Lines 337-349: the next rule of the chunk: the route component is built
\* and the node query is rendered and handed to the cache.
StartRule ==
    /\ pc = "rule"
    /\ qi < Len(Rules)
    /\ qi' = qi + 1
    /\ LET query == Rules[qi + 1]
           aroundRoute == queryRouteComponent(Locus(query), splits[si])
           rendered == RenderQuery("node", query.conditions, aroundRoute.text)
       IN IF ~aroundRoute.ok \/ ~rendered.ok
          THEN /\ Fail("error")
               /\ UNCHANGED <<cache, ftext, resp, rc, fres, freqs, fprior,
                              cache0, paid>>
          ELSE /\ CallFetch(rendered.text)
               /\ pc' = "nodes"
               /\ UNCHANGED <<res, cache, paid>>
    /\ UNCHANGED <<pts, splits, si, pois, outputs, matches, found,
                   pureVars>>
    /\ UNCHANGED world

\* getPoint over a list of (tags, position) pairs, in order: the points,
\* or the first failure.
RECURSIVE GetPoints(_, _)
GetPoints(items, acc) ==
    IF items = <<>> THEN [kind |-> "ok", pts |-> acc]
    ELSE LET p == getPoint(Head(items).Tags, Head(items).At)
         IN IF p.kind # "ok" THEN [kind |-> p.kind, pts |-> <<>>]
            ELSE GetPoints(Tail(items), Append(acc, p.pt))

NodeItems(els) ==
    [i \in 1..Len(els) |->
        [Tags |-> els[i].Tags, At |-> LatLonOf(els[i])]]

CentreItems(cs) ==
    [i \in 1..Len(cs) |-> [Tags |-> cs[i].Tags, At |-> cs[i].Centre]]

\* A POI that is in the list already is not appended again.
AddedOncePerChunk(old, new) ==
    old \o SelectSeq(new, LAMBDA p : \A i \in 1..Len(old) : old[i] # p)

\* pois = append(pois, pt) for every point of one query.
Added(old, new) == old \o new

\* Lines 349-366 and nodes(): the node query has returned. Every element
\* must be a node and becomes a POI; then the way query is rendered and
\* handed to the cache.
NodesReturn ==
    /\ pc = "nodes"
    /\ fpc = "done"
    /\ LET query == Rules[qi]
           aroundRoute == queryRouteComponent(Locus(query), splits[si])
           rendered == RenderQuery("way", query.conditions, aroundRoute.text)
           got == GetPoints(NodeItems(fres.elements), <<>>)
       IN IF \/ ~fres.ok
             \/ \E i \in 1..Len(fres.elements) : fres.elements[i].Type # "node"
          THEN /\ Fail("error")
               /\ UNCHANGED <<pois, matches, cache, ftext, resp, rc, fres,
                              freqs, fprior, cache0, paid>>
          ELSE IF got.kind # "ok"
          THEN /\ Fail(got.kind)
               /\ UNCHANGED <<pois, matches, cache, ftext, resp, rc, fres,
                              freqs, fprior, cache0, paid>>
          ELSE /\ pois' = Added(pois, got.pts)
               /\ matches' = matches \cup
                    {<<qi, fres.elements[i]>> : i \in 1..Len(fres.elements)}
               /\ IF ~rendered.ok
                  THEN /\ Fail("error")
                       /\ UNCHANGED <<cache, ftext, resp, rc, fres, freqs,
                                      fprior, cache0, paid>>
                  ELSE /\ CallFetch(rendered.text)
                       /\ pc' = "ways"
                       /\ UNCHANGED <<res, cache, paid>>
    /\ UNCHANGED <<pts, splits, si, qi, outputs, found, pureVars>>
    /\ UNCHANGED world

\* The ways of a response, one per id.
WaysOf(els) ==
    LET ways == ByID(els, "way") IN {ways[id] : id \in DOMAIN ways}

\* Lines 366-379 and wayCentres(): the way query has returned. The ways
\* are resolved to their centres and every centre becomes a POI.
WaysReturn ==
    /\ pc = "ways"
    /\ fpc = "done"
    /\ IF ~fres.ok
       THEN /\ Fail("error")
            /\ UNCHANGED <<pois, matches>>
       ELSE \E o \in WayCentresOutcomes(fres.elements) :
              LET got == GetPoints(CentreItems(o.centres), <<>>)
              IN IF ~o.ok
                 THEN /\ Fail("error")
                      /\ UNCHANGED <<pois, matches>>
                 ELSE IF got.kind # "ok"
                 THEN /\ Fail(got.kind)
                      /\ UNCHANGED <<pois, matches>>
                 ELSE /\ pois' = Added(pois, got.pts)
                      /\ matches' = matches \cup
                           {<<qi, w>> : w \in WaysOf(fres.elements)}
                      /\ pc' = "rule"
                      /\ fpc' = "idle"
                      /\ res' = res
    /\ UNCHANGED <<pts, splits, si, qi, outputs, found, pureVars,
                   cache, ftext, resp, rc, fres, freqs, fprior, cache0, paid>>
    /\ UNCHANGED world

\* The list sorted and written after every rule, not after the last alone.
WriteOutputPerRule ==
    /\ pc = "rule"
    /\ qi >= 1
    /\ Len(outputs) < qi
    /\ pois' = SortSlice(pois)
    /\ outputs' = Append(outputs, pois')
    /\ found' = pois
    /\ pc' = IF qi = Len(Rules) THEN "chunk" ELSE "rule"
    /\ UNCHANGED <<pts, splits, si, qi, res, matches, fetchVars, pureVars>>
    /\ UNCHANGED world

\* Lines 381-425: every rule of the chunk is done: the POI list is sorted
\* and written to a new output file.
WriteOutput ==
    /\ pc = "rule"
    /\ qi = Len(Rules)
    /\ pois' = SortSlice(pois)
    /\ outputs' = Append(outputs, pois')
    /\ found' = pois
    /\ pc' = "chunk"
    /\ UNCHANGED <<pts, splits, si, qi, res, matches, fetchVars, pureVars>>
    /\ UNCHANGED world

\* ---------------------------------------------------------- specifications
FetchIdle ==
    /\ cache = << >>
    /\ fpc = "idle"
    /\ ftext = <<>>
    /\ resp = NoResp
    /\ rc = <<>>
    /\ fres = Err("pending")
    /\ freqs = 0
    /\ fprior = <<>>
    /\ cache0 = << >>
    /\ paid = << >>

AggIdle ==
    /\ batch = <<>>
    /\ aggRes = [ok |-> FALSE, err |-> "pending", centres |-> <<>>]

\* Before the call.
NotNamed ==
    [name |-> [ok |-> FALSE, name |-> <<>>], point |-> "pending",
     desc |-> <<>>]

ClassIdle ==
    /\ tagMap = << >>
    /\ named = NotNamed

RunIdle ==
    /\ si = 0
    /\ qi = 0
    /\ pois = <<>>
    /\ outputs = <<>>
    /\ res = "running"
    /\ matches = {}
    /\ found = <<>>

\* A run of mainErr on a route, from an empty cache directory.
Init ==
    /\ pts \in UNION {RunRoutesOfLen(n) : n \in 0..MaxRouteLen}
    /\ splits = <<>>
    /\ pc = "segment"
    /\ RunIdle
    /\ FetchIdle
    /\ AggIdle
    /\ ClassIdle
    /\ world \in Worlds

Next ==
    \/ Segment
    \/ NextChunk
    \/ StartRule
    \/ NodesReturn
    \/ WaysReturn
    \/ WriteOutput
    \/ FetchOpen
    \/ FetchPost
    \/ FetchCopy
    \/ FetchDecode

Spec == Init /\ [][Next]_vars

\* The segmenter on its own, on longer routes.
SegInit ==
    /\ pts \in RoutesUpTo(MaxSegLen)
    /\ splits = <<>>
    /\ pc = "segment"
    /\ RunIdle
    /\ FetchIdle
    /\ AggIdle
    /\ ClassIdle
    /\ world = DataNone

SegNext == Segment

SegSpec == SegInit /\ [][SegNext]_vars

\* The cache on its own: any sequence of calls of queryResponseElements,
\* of one run or of several, on one cache directory. The queries are those
\* of the first rule around a route of one point: the node query at each
\* point of the pool and the way query at P0.
CacheQueries == {<<"node", P0>>, <<"node", P1>>, <<"node", P2>>, <<"way", P0>>}

\* The data the service may hold at a call: data that answers these queries
\* with nothing, with points and polylines, and with a polyline that lacks a
\* point.
CacheWorlds == {DataNone, DataTown, DataDangling}

CacheCall ==
    /\ pc = "off"
    /\ fpc = "idle"
    /\ \E q \in CacheQueries :
         CallFetch(RenderQuery(q[1], Rules[1].conditions,
             queryRouteComponent(Locus(Rules[1]), <<q[2]>>).text).text)
    /\ world' \in CacheWorlds
    /\ UNCHANGED <<cache, paid, runVars, pureVars>>

CacheReturn ==
    /\ pc = "off"
    /\ fpc = "done"
    /\ fpc' = "idle"
    /\ UNCHANGED <<cache, ftext, resp, rc, fres, freqs, fprior, cache0, paid,
                   runVars, pureVars>>
    /\ UNCHANGED world

CacheInit ==
    /\ pts = <<>>
    /\ splits = <<>>
    /\ pc = "off"
    /\ world = DataNone
    /\ RunIdle
    /\ FetchIdle
    /\ AggIdle
    /\ ClassIdle

CacheNext ==
    \/ CacheCall
    \/ CacheReturn
    \/ FetchOpen
    \/ FetchPost
    \/ FetchCopy
    \/ FetchDecode

CacheSpec == CacheInit /\ [][CacheNext]_vars

\* The aggregator on its own, on any decoded response.
RECURSIVE BatchesOfLen(_)
BatchesOfLen(n) ==
    IF n = 0 THEN {<<>>}
    ELSE {Append(b, e) : b \in BatchesOfLen(n - 1), e \in ElementPool}

Resolve ==
    /\ pc = "off"
    /\ aggRes.err = "pending"
    /\ aggRes' \in WayCentresOutcomes(batch)
    /\ UNCHANGED <<batch, runVars, fetchVars, classVars>>
    /\ UNCHANGED world

AggInit ==
    /\ pts = <<>>
    /\ splits = <<>>
    /\ pc = "off"
    /\ world = DataNone
    /\ RunIdle
    /\ FetchIdle
    /\ ClassIdle
    /\ batch \in UNION {BatchesOfLen(n) : n \in 0..MaxBatch}
    /\ aggRes = [ok |-> FALSE, err |-> "pending", centres |-> <<>>]

AggNext == Resolve

AggSpec == AggInit /\ [][AggNext]_vars

\* The classifier on its own, on any tag map a decoded element may carry:
\* the keys are those of the priority list and one key outside it; a value
\* is the empty string, another string, a string that holds a quote, or a
\* JSON number.
TagKeys == {nameTags[i] : i \in DOMAIN nameTags} \cup {S_capacity}

TagValues == {Str(<<>>), Str(<<"B">>), Str(<<"a", "\"", "b">>), Num(<<"4">>)}

TagMaps ==
    UNION {[K -> TagValues] :
             K \in {S \in SUBSET TagKeys : Cardinality(S) <= MaxTags}}

\* One call of the closure returned by point(), which calls resolveName.
Classify ==
    /\ pc = "off"
    /\ named.point = "pending"
    /\ LET p == getPoint(tagMap, LatLonOf(NodeFountain))
       IN named' = [name |-> resolveName(tagMap),
                    point |-> p.kind,
                    desc |-> IF p.kind = "ok" THEN p.pt.Description
                             ELSE <<>>]
    /\ UNCHANGED <<tagMap, runVars, fetchVars, aggVars>>
    /\ UNCHANGED world

ClassInit ==
    /\ pts = <<>>
    /\ splits = <<>>
    /\ pc = "off"
    /\ world = DataNone
    /\ RunIdle
    /\ FetchIdle
    /\ AggIdle
    /\ tagMap \in TagMaps
    /\ named = NotNamed

ClassNext == Classify

ClassSpec == ClassInit /\ [][ClassNext]_vars

\* ------------------------------------------------------------------ claims
\* C1: once a fetch of a query text has received and stored body B from
\* the network, a later fetch of the same text sends no request and decodes
\* exactly B.
C1_CacheIdempotence ==
    (fpc # "idle" /\ fprior # <<>>) =>
        /\ freqs = 0
        /\ fpc = "done" => fres = Decode(fprior[1])
        /\ fpc \in {"decode", "done"} => rc = fprior[1]

\* A fetch has returned the elements of a body an earlier fetch paid for.
C1_Witness ==
    /\ fpc = "done"
    /\ fprior # <<>>
    /\ fres.ok
    /\ Len(fres.elements) > 0
    /\ Cardinality(DOMAIN cache) >= 2

\* C2: whenever the caller holds the response of a miss, the cache file of
\* the query holds the whole body.
C2_WriteBeforeReturn ==
    (freqs > 0 /\ (fpc = "decode" \/ (fpc = "done" /\ fres.ok))) =>
        /\ Sha(ftext) \in DOMAIN cache
        /\ cache[Sha(ftext)] = resp.body

\* A miss has returned decoded elements.
C2_Witness == fpc = "done" /\ freqs > 0 /\ fres.ok /\ Len(fres.elements) > 0

\* A status outside 2xx.
NonSuccess(status) == status < 200 \/ status > 299

\* C3: a miss answered with a non-success status fails after exactly one
\* request and leaves the cache as it was, without an entry for the key.
C3_FailedStatus ==
    (fpc = "done" /\ resp # NoResp /\ NonSuccess(resp.status)) =>
        /\ ~fres.ok
        /\ freqs = 1
        /\ Sha(ftext) \notin DOMAIN cache
        /\ cache = cache0

\* A fetch has failed on a non-success status with other queries cached.
C3_Witness ==
    /\ fpc = "done"
    /\ resp.status = 429
    /\ ~fres.ok
    /\ cache # << >>

RECURSIVE Flatten(_)
Flatten(ss) == IF ss = <<>> THEN <<>> ELSE Head(ss) \o Flatten(Tail(ss))

Ceil(n, k) == (n + k - 1) \div k

Segmented == pc # "segment" /\ Len(pts) >= 1

\* C4: for every route of N >= 1 points and every chunk count K >= 1 the
\* chunks are non-empty and their concatenation, in order, is the route:
\* so it is for the chunks the program has cut with its own chunk count,
\* and for the chunks the segmenter's arithmetic yields for every chunk
\* count up to MaxSplit.
C4_Coverage ==
    Segmented =>
        /\ \A j \in 1..Len(splits) : splits[j] # <<>>
        /\ Flatten(splits) = pts
        /\ \A k \in 1..MaxSplit :
              /\ \A j \in 1..Len(Splits(pts, k)) : Splits(pts, k)[j] # <<>>
              /\ Flatten(Splits(pts, k)) = pts

\* A route of several points has been cut, and a chunk count of two cuts it
\* into more than one chunk.
C4_Witness ==
    /\ Segmented
    /\ Len(pts) >= 3
    /\ splits = <<pts>>
    /\ Len(Splits(pts, 2)) >= 2

\* C5: with the chunk count K of the program, the constant `split`, every
\* chunk but the last has exactly ceil(N/K) points, the last has at most
\* that many, and there are never more than K chunks.
C5_ChunkSize ==
    Segmented =>
        /\ Len(splits) <= split
        /\ \A j \in 1..Len(splits) :
              IF j < Len(splits)
              THEN Len(splits[j]) = Ceil(Len(pts), split)
              ELSE Len(splits[j]) <= Ceil(Len(pts), split)

\* A route of several points has been cut into `split` chunks of
\* ceil(N/split) points.
C5_Witness ==
    /\ Segmented
    /\ Len(pts) >= 3
    /\ Len(splits) = split
    /\ Len(splits[1]) = Ceil(Len(pts), split)

\* C6: a route of no points makes the run fail with an error; no query is
\* sent and no output is written.
C6_EmptyRouteFails ==
    (pc = "done" /\ Len(pts) = 0) =>
        /\ res = "error"
        /\ outputs = <<>>
        /\ cache = << >>

\* The run has ended on an error or a panic.
Failed == res \in {"error", "panic"}

\* C7: a run that has failed, at whatever step of the chunk and rule
\* iteration, has stopped there: mainErr has returned, no call of the cache
\* is under way, so no further query is sent, and no POI output has been
\* written, for no chunk.
C7_NoPartialOutput ==
    Failed =>
        /\ outputs = <<>>
        /\ pc = "done"
        /\ fpc = "idle"

\* A run has failed in a later rule, with POIs of earlier rules built and
\* their queries cached.
C7_Witness ==
    /\ res = "error"
    /\ qi >= 2
    /\ pois # <<>>
    /\ Cardinality(DOMAIN cache) >= 2

\* The POIs of the list that were built from element e: its tag map is its
\* description, and a point element is at its own place.
PoisOf(list, e) ==
    LET desc == Marshal(e.Tags)
    IN {i \in 1..Len(list) :
          /\ list[i].Description = desc
          /\ e.Type = "node" =>
                /\ list[i].Lat = LatLonOf(e).Lat
                /\ list[i].Lon = LatLonOf(e).Lon}

Matched == {m[2] : m \in matches}

\* C8, as claimed: every matched element has exactly one POI in the list of
\* the chunk, however many rules returned it.
C8_OnePoiPerElement ==
    \A e \in Matched : Cardinality(PoisOf(pois, e)) = 1

\* C8, amended: every matched element has one POI in the chunk's list for
\* each rule whose query returned it, and the list holds nothing else.
C8_OnePoiPerMatch ==
    /\ \A e \in Matched :
          Cardinality(PoisOf(pois, e)) =
              Cardinality({m \in matches : m[2] = e})
    /\ Len(pois) = Cardinality(matches)

\* Three rules have returned the fountain, and a way query has returned
\* ways together with the points they are made of.
C8_Witness ==
    /\ pc = "chunk"
    /\ outputs # <<>>
    /\ Cardinality({m \in matches : m[2] = NodeFountain}) = 3
    /\ WayShelter \in Matched
    /\ NodePlain \notin Matched

\* The points a decoded response holds, by id, and its ways.
BatchNodeIDs == {batch[i].ID : i \in {j \in 1..Len(batch) : batch[j].Type = "node"}}
BatchWays == {batch[i] : i \in {j \in 1..Len(batch) : batch[j].Type = "way"}}
BatchBroken ==
    \E w \in BatchWays :
        \/ Len(w.Nodes) = 0
        \/ \E i \in 1..Len(w.Nodes) : w.Nodes[i] \notin BatchNodeIDs

\* C9: on a response of points and polylines, a polyline without points or
\* with a point that the response lacks makes the resolution fail with no
\* centre returned; otherwise there is exactly one centre per polyline id.
C9_ReferentialIntegrity ==
    (/\ aggRes.err # "pending"
     /\ \A i \in 1..Len(batch) : batch[i].Type \in {"node", "way"}) =>
        IF BatchBroken
        THEN ~aggRes.ok /\ aggRes.centres = <<>>
        ELSE /\ aggRes.ok
             /\ Len(aggRes.centres) = Cardinality({w.ID : w \in BatchWays})
             /\ {aggRes.centres[i].ID : i \in 1..Len(aggRes.centres)}
                   = {w.ID : w \in BatchWays}

\* A response with a resolvable polyline and a dangling one has failed.
C9_Witness ==
    /\ aggRes.err = "node not found"
    /\ WayPub \in BatchWays
    /\ WayDangling \in BatchWays
    /\ NodeFountain.ID \in BatchNodeIDs

\* The lexicographic order on (name, description, symbol, latitude,
\* longitude).
KeyLess(a, b) ==
    \/ StrLess(a.Name, b.Name)
    \/ /\ a.Name = b.Name
       /\ \/ StrLess(a.Description, b.Description)
          \/ /\ a.Description = b.Description
             /\ \/ StrLess(a.Symbol, b.Symbol)
                \/ /\ a.Symbol = b.Symbol
                   /\ \/ F64Less(a.Lat, b.Lat)
                      \/ (a.Lat = b.Lat /\ F64Less(a.Lon, b.Lon))

Count(list, p) == Cardinality({i \in 1..Len(list) : list[i] = p})

\* C10: every written list holds the POIs built for its chunk, each as
\* often as it was built, in the lexicographic order of the five fields;
\* two POIs that do not differ in that order are the same POI, so the
\* written sequence is the only one in that order.
C10_OutputOrdering ==
    (pc = "chunk" /\ outputs # <<>>) =>
        LET out == outputs[Len(outputs)]
        IN /\ Len(out) = Len(found)
           /\ \A i \in 1..Len(found) : Count(out, found[i]) = Count(found, found[i])
           /\ \A i, j \in 1..Len(out) :
                 i < j => (out[i] = out[j] \/ KeyLess(out[i], out[j]))

\* Two POIs equal in name, description and symbol.
C10_Tied(a, b) ==
    a.Name = b.Name /\ a.Description = b.Description /\ a.Symbol = b.Symbol

\* A list was written in another order than it was built in; of its POIs,
\* two are equal in every field, two of one name differ in the description,
\* two differ in nothing but the longitude and were built with the greater
\* longitude first, and two differ in the latitude and were built with the
\* greater latitude, which has the lower longitude, first.
C10_Witness ==
    /\ pc = "chunk"
    /\ outputs # <<>>
    /\ outputs[Len(outputs)] # found
    /\ \E i, j \in 1..Len(found) : i # j /\ found[i] = found[j]
    /\ \E i, j \in 1..Len(found) :
          found[i].Name = found[j].Name
            /\ found[i].Description # found[j].Description
    /\ \E i, j \in 1..Len(found) :
          /\ i < j
          /\ C10_Tied(found[i], found[j])
          /\ found[i].Lat = found[j].Lat
          /\ F64Less(found[j].Lon, found[i].Lon)
    /\ \E i, j \in 1..Len(found) :
          /\ i < j
          /\ C10_Tied(found[i], found[j])
          /\ F64Less(found[j].Lat, found[i].Lat)
          /\ F64Less(found[i].Lon, found[j].Lon)

\* C11: for every tag map, the resolved name is the value of the first key
\* of the list name, amenity, tourism, leisure, shop, waterway, natural,
\* boundary that is present with a string value, so a name key with a string
\* value always wins and a key with a value of another type is passed over;
\* when no key of the list is present with a string value, the resolution
\* fails with "no suitable tag for name" and point() returns that error.
C11_Priority ==
    << <<"n","a","m","e">>,
       <<"a","m","e","n","i","t","y">>,
       <<"t","o","u","r","i","s","m">>,
       <<"l","e","i","s","u","r","e">>,
       <<"s","h","o","p">>,
       <<"w","a","t","e","r","w","a","y">>,
       <<"n","a","t","u","r","a","l">>,
       <<"b","o","u","n","d","a","r","y">> >>

C11_Usable ==
    {i \in DOMAIN C11_Priority :
        /\ C11_Priority[i] \in DOMAIN tagMap
        /\ tagMap[C11_Priority[i]].str}

C11_First == CHOOSE i \in C11_Usable : \A j \in C11_Usable : i <= j

C11_NameResolution ==
    named.point # "pending" =>
        IF C11_Usable = {}
        THEN ~named.name.ok /\ named.point = "error"
        ELSE /\ named.name.ok
             /\ named.name.name = tagMap[C11_Priority[C11_First]].text
             /\ named.point # "error"
             /\ (1 \in C11_Usable =>
                    named.name.name = tagMap[C11_Priority[1]].text)

\* A name key holding a number is passed over, the amenity key is absent,
\* and the tourism key wins over the shop key.
C11_Witness ==
    /\ named.point # "pending"
    /\ DOMAIN tagMap = {C11_Priority[1], C11_Priority[3], C11_Priority[5]}
    /\ ~tagMap[C11_Priority[1]].str
    /\ tagMap[C11_Priority[3]] = Str(<<"B">>)
    /\ tagMap[C11_Priority[5]] = Str(<<>>)
    /\ named.name = [ok |-> TRUE, name |-> <<"B">>]

\* C12: in every state of the cache directory outside the copy itself,
\* also after a fetch that failed while the response body was being copied,
\* every file under a cache key holds the complete body of a 200 response
\* to the query with that key, so a hit never serves a truncated or empty
\* body.
C12_CacheComplete ==
    fpc # "copy" =>
        \A key \in DOMAIN cache :
            key \in DOMAIN paid /\ cache[key] = paid[key]

====
